---- MODULE Spec2Model ----
(***************************************************************************)
(* Model of the LinkedIn OAuth2 client of homey_linkedin:                  *)
(*   - the handling of the result of an authenticated get/post request     *)
(*     (LinkedInOAuth2Client.onHandleResult, current file and the earlier  *)
(*     draft that probes /me after a refresh);                             *)
(*   - the authorization-code exchange (LinkedInOAuth2Client.getTokenByCode)*)
(*     with what it sends and what it logs;                                *)
(*   - the device: its token store, its posts and lastPostTime;            *)
(*   - the lookups of the profile and the email, postMessage and pairing;  *)
(*   - the app: its start, its settings, its active client;                *)
(*   - the expiry of a token.                                              *)
(* The provider, the network and the base class of homey-oauth2app are the *)
(* environment.                                                            *)
(***************************************************************************)
EXTENDS Integers, Sequences, FiniteSets, TLC

VARIABLES
    impl,          \* which onHandleResult is loaded: "current" or "draft"
    revoked,       \* the provider has revoked the account: every API call answers 401
    apiAnswer,     \* the status the provider gives an authorised API request
    token,         \* OAuth2Client._token
    valid,         \* access tokens the provider accepts
    nextGen,       \* the next access token the provider will issue
    pc,            \* per request: idle, inflight, refreshing, done
    req,           \* per request: the request the caller made
    cur,           \* per request: the request in flight (the original or the probe)
    sends,         \* per request: what was sent to the API during the call, with the answers
    refreshes,     \* per request: the refreshes the call asked for, with their results
    outcome,       \* per request: what the caller of get/post receives
    refreshPosts,  \* refresh exchanges sent to the token endpoint
    inFlight,      \* refresh exchanges in flight
    xpc,           \* per code exchange: idle, fetching, done
    xcode,         \* per code exchange: the argument of getTokenByCode
    xcodeStr,      \* per code exchange: codeStr
    xresp,         \* per code exchange: the answer of the token endpoint
    xthrown,       \* per code exchange: the error thrown inside the try block
    xout,          \* per code exchange: what the caller of getTokenByCode receives
    tokenPosts,    \* the requests sent to TOKEN_URL
    consumed,      \* authorization codes the provider has accepted
    store,         \* the device store: the values under 'oauth2_token' and 'lastPostTime'
    activeToken,   \* _token of the app's activeOAuth2Client
    dpc,           \* the device: off, ready, deleted
    written,       \* the token the last successful storeToken wrote (null: none)
    restored,      \* onOAuth2Init has set the client's token from the device store
    storeCall,     \* the last storeToken call: whether the write failed, what the caller got
    setError,      \* the error of the setToken call of the last step ("": none)
    lpc,           \* the lookup or post call: idle, profile, email, post, done
    lop,           \* the lookup or post call: the operation and its arguments
    lnet,          \* the requests the lookup or post call has sent
    lout,          \* what the caller of the lookup or post call receives
    expiry,        \* the last isExpired call: the clock, the token, the skew, the result
    activeClient,  \* the app's activeOAuth2Client is set
    got,           \* what the last getActiveOAuth2Client returned
    devPost,       \* the device's post: its call, lastPostTime, the capability, the result
    settings,      \* the app settings 'client_id' and 'client_secret' ("": not set)
    clientStatic,  \* LinkedInOAuth2Client._clientId, _clientSecret, _redirectUrl
    built,         \* per client: the options it was constructed with
    app,           \* the app: whether onOAuth2Init has ended and how
    logs           \* the lines logged by the client

reqVars == <<impl, revoked, apiAnswer, token, valid, nextGen, pc, req, cur, sends,
             refreshes, outcome, refreshPosts, inFlight>>
xVars == <<xpc, xcode, xcodeStr, xresp, xthrown, xout, tokenPosts, logs>>
devVars == <<store, activeToken, dpc, written, restored, storeCall, setError>>
lookVars == <<lpc, lop, lnet, lout>>
actVars == <<activeClient, got>>
cfgVars == <<settings, clientStatic, built, app>>
appVars == <<expiry, actVars, devPost, cfgVars>>
otherVars == <<consumed, devVars, lookVars, appVars>>
vars == <<impl, revoked, apiAnswer, token, valid, nextGen, pc, req, cur, sends,
          refreshes, outcome, refreshPosts, inFlight,
          xpc, xcode, xcodeStr, xresp, xthrown, xout, tokenPosts,
          consumed, store, activeToken, dpc, written, restored, storeCall, setError,
          lpc, lop, lnet, lout, expiry, activeClient, got, devPost,
          settings, clientStatic, built, app, logs>>

(***************************************************************************)
(* Bounds                                                                  *)
(***************************************************************************)
NumRequests == 2
MaxSends == 3
NumExchanges == 1
NumConcurrent == 2

Req == 1..NumRequests
Calls == 1..NumExchanges

\* the client instances: one per exchange
Clients == Calls \cup (1..NumConcurrent)

(***************************************************************************)
(* Tokens                                                                  *)
(***************************************************************************)
\* OAuth2Token: access is the access token (0: none), refresh the refresh
\* token (0: none)
NoToken == [present |-> FALSE, access |-> 0, refresh |-> 0]

Token(a, r) == [present |-> TRUE, access |-> a, refresh |-> r]

getToken == token

(***************************************************************************)
(* API responses                                                           *)
(***************************************************************************)
ApiStatuses == {200, 201, 204, 400, 401, 403, 429, 500}

Requests == { [method |-> "GET", path |-> "/me", body |-> "none"],
              [method |-> "POST", path |-> "/ugcPosts", body |-> "share"] }

\* the request the draft sends after a refresh: get /me?projection=(id)
ProbeRequest == [method |-> "GET", path |-> "/me?projection=(id)", body |-> "none"]

\* the body the provider answers a request with
ProviderData(rq, status) == <<"provider", rq.path, status>>

\* data: { refreshed: true, message: 'Token refreshed, please retry operation' }
RefreshedData == <<"refreshed", "Token refreshed, please retry operation", 0>>

NoData == <<"none", "", 0>>

\* ApiResponse {ok, status, data}; empty stands for an undefined result
EmptyResult == [empty |-> TRUE, ok |-> FALSE, status |-> 0, data |-> NoData]

ApiResponse(ok, status, data) == [empty |-> FALSE, ok |-> ok, status |-> status, data |-> data]

IsOk(status) == status >= 200 /\ status <= 299

\* what the provider answers a request carrying access token a
ProviderStatus(a) ==
    IF revoked \/ a \notin valid THEN 401 ELSE apiAnswer

\* the result the base class hands to onHandleResult: the response with its
\* body, nothing when the response has no content
ResultOf(rq, status) ==
    IF status = 204 THEN EmptyResult
    ELSE ApiResponse(IsOk(status), status, ProviderData(rq, status))

(***************************************************************************)
(* What a caller receives                                                  *)
(***************************************************************************)
Pending == [kind |-> "pending", ok |-> FALSE, status |-> 0, data |-> NoData,
            name |-> "", message |-> <<>>, estatus |-> 0, ebody |-> NoData]

Return(res) == [kind |-> "return", ok |-> res.ok, status |-> res.status, data |-> res.data,
                name |-> "", message |-> <<>>, estatus |-> 0, ebody |-> NoData]

\* a thrown error: name is its class, message its text as the sequence of
\* its parts ("<data>" where the text embeds a body); estatus and ebody are
\* the status code and the response body the text embeds (0, NoData when it
\* embeds none)
Throw(name, message, estatus, ebody) ==
    [kind |-> "throw", ok |-> FALSE, status |-> 0, data |-> NoData,
     name |-> name, message |-> message, estatus |-> estatus, ebody |-> ebody]

\* the handler is at an await, or has called this.get(request)
Await == [Pending EXCEPT !.kind = "await"]

Get == [Pending EXCEPT !.kind = "get"]

(***************************************************************************)
(* JavaScript values, as getTokenByCode meets them                         *)
(***************************************************************************)
\* a value: its type, its text (String(v) for a primitive) and, for an
\* object, its own properties in insertion order
Str(s) == [t |-> "string", s |-> s, fields |-> <<>>]

Num(s) == [t |-> "number", s |-> s, fields |-> <<>>]

Bool(s) == [t |-> "boolean", s |-> s, fields |-> <<>>]

Null == [t |-> "null", s |-> "null", fields |-> <<>>]

Undefined == [t |-> "undefined", s |-> "undefined", fields |-> <<>>]

Obj(fields) == [t |-> "object", s |-> "[object Object]", fields |-> fields]

Field(k, v) == [k |-> k, v |-> v]

\* typeof v
TypeOf(v) == IF v.t = "null" THEN "object" ELSE v.t

\* v in a condition
Truthy(v) ==
    CASE v.t = "string" -> v.s # ""
      [] v.t = "number" -> v.s \notin {"0", "NaN"}
      [] v.t = "boolean" -> v.s = "true"
      [] v.t \in {"null", "undefined"} -> FALSE
      [] v.t = "object" -> TRUE

\* String(v)
JsString(v) == v.s

HasProp(v, k) == \E i \in 1..Len(v.fields) : v.fields[i].k = k

\* v[k]
Prop(v, k) ==
    IF HasProp(v, k)
    THEN v.fields[CHOOSE i \in 1..Len(v.fields) :
                     /\ v.fields[i].k = k
                     /\ \A j \in 1..(i - 1) : v.fields[j].k # k].v
    ELSE Undefined

\* JSON.stringify of a primitive inside an object
JsonPrim(v) ==
    IF v.t = "string" THEN "\"" \o v.s \o "\"" ELSE v.s

RECURSIVE JsonMembers(_, _)
JsonMembers(fields, sep) ==
    IF fields = <<>> THEN ""
    ELSE IF Head(fields).v.t = "undefined" THEN JsonMembers(Tail(fields), sep)
    ELSE sep \o "\"" \o Head(fields).k \o "\":" \o JsonPrim(Head(fields).v)
         \o JsonMembers(Tail(fields), ",")

\* JSON.stringify(v)
JSONstringify(v) ==
    IF v.t = "object" THEN "{" \o JsonMembers(v.fields, "") \o "}" ELSE JsonPrim(v)

\* new URL(href) and new URLSearchParams(url.search).get('code'), for the
\* callback urls of the model; any other text is not a url
Urls == { [href |-> "https://callback.athom.com/oauth2/callback?code=AQT&state=xyz",
           code |-> "AQT"],
          [href |-> "https://callback.athom.com/oauth2/callback?state=xyz",
           code |-> ""] }

IsUrl(href) == \E u \in Urls : u.href = href

CodeParam(href) == (CHOOSE u \in Urls : u.href = href).code

(***************************************************************************)
(* getTokenByCode                                                          *)
(***************************************************************************)
\* the first own property of code that holds a string, 0 when none does
FirstStringField(code) ==
    IF \E i \in 1..Len(code.fields) : code.fields[i].v.t = "string"
    THEN CHOOSE i \in 1..Len(code.fields) :
            /\ code.fields[i].v.t = "string"
            /\ \A j \in 1..(i - 1) : code.fields[j].v.t # "string"
    ELSE 0

\* codeStr, as getTokenByCode extracts it from its argument
ExtractCode(code) ==
    IF TypeOf(code) = "string" THEN code.s
    ELSE IF Truthy(code) /\ TypeOf(code) = "object"
    THEN IF Truthy(Prop(code, "code")) /\ TypeOf(Prop(code, "code")) = "string"
         THEN Prop(code, "code").s
         ELSE IF Truthy(Prop(code, "url")) /\ TypeOf(Prop(code, "url")) = "string"
         THEN IF IsUrl(Prop(code, "url").s) /\ CodeParam(Prop(code, "url").s) # ""
              THEN CodeParam(Prop(code, "url").s)
              ELSE JsString(code)
         ELSE IF FirstStringField(code) # 0
              THEN code.fields[FirstStringField(code)].v.s
              ELSE JSONstringify(code)
    ELSE IF Truthy(code) THEN JsString(code) ELSE ""

\* if (!codeStr || codeStr === 'undefined' || codeStr === '[object Object]')
InvalidCodeStr(codeStr) ==
    codeStr = "" \/ codeStr = "undefined" \/ codeStr = "[object Object]"

\* what the caller of getTokenByCode receives: a token or an error; estatus
\* and ebody are the status code and the body text the error's text embeds
XPending == [kind |-> "pending", token |-> Undefined, name |-> "", message |-> <<>>,
             estatus |-> 0, ebody |-> ""]

XReturn(tok) == [kind |-> "return", token |-> tok, name |-> "", message |-> <<>>,
                 estatus |-> 0, ebody |-> ""]

XThrow(name, message, estatus, ebody) ==
    [kind |-> "throw", token |-> Undefined, name |-> name, message |-> message,
     estatus |-> estatus, ebody |-> ebody]

\* the token endpoint's answers: the body text with what JSON.parse makes of it
ParseError == [t |-> "SyntaxError", s |-> "", fields |-> <<>>]

TokenBodies ==
    { [text |-> "{\"access_token\":\"AQV\",\"expires_in\":5184000,\"refresh_token\":\"AQW\",\"id_token\":\"eyJ\"}",
       json |-> Obj(<<Field("access_token", Str("AQV")), Field("expires_in", Num("5184000")),
                      Field("refresh_token", Str("AQW")), Field("id_token", Str("eyJ"))>>)],
      [text |-> "{\"access_token\":\"AQV\",\"expires_in\":5184000}",
       json |-> Obj(<<Field("access_token", Str("AQV")), Field("expires_in", Num("5184000"))>>)],
      [text |-> "{\"access_token\":\"AQVk3y8Tz\",\"expires_in\":5184000}",
       json |-> Obj(<<Field("access_token", Str("AQVk3y8Tz")),
                      Field("expires_in", Num("5184000"))>>)],
      [text |-> "{\"error\":\"invalid_request\"}",
       json |-> Obj(<<Field("error", Str("invalid_request"))>>)],
      [text |-> "{\"access_token\":\"\"}",
       json |-> Obj(<<Field("access_token", Str(""))>>)],
      [text |-> "{\"access_token\":42}",
       json |-> Obj(<<Field("access_token", Num("42"))>>)],
      [text |-> "<html>Bad Gateway</html>", json |-> ParseError],
      [text |-> "", json |-> ParseError],
      [text |-> "null", json |-> Null],
      [text |-> "42", json |-> Num("42")] }

\* JSON.parse(text)
JSONparse(text) == (CHOOSE b \in TokenBodies : b.text = text).json

TokenStatuses == {200, 400, 401, 500}

NoResponse == [status |-> 0, readable |-> FALSE, text |-> ""]

\* responseText: the body, '' when reading it fails
ResponseText(resp) == IF resp.readable THEN resp.text ELSE ""

\* the token getTokenByCode returns
TokenFrom(tokenResponse) ==
    [access_token |-> Prop(tokenResponse, "access_token"),
     refresh_token |-> Prop(tokenResponse, "refresh_token"),
     token_type |-> Prop(tokenResponse, "token_type"),
     expires_in |-> Prop(tokenResponse, "expires_in"),
     id_token |-> Prop(tokenResponse, "id_token")]

\* the try block with an error for a failed request that names neither the
\* status nor the body
HandleTokenResponseBareError(resp) ==
    LET responseText == ResponseText(resp)
        tokenResponse == JSONparse(responseText)
    IN
    IF ~IsOk(resp.status)
    THEN XThrow("Error", <<"Failed to exchange code for token">>, 0, "")
    ELSE IF tokenResponse = ParseError
    THEN XThrow("Error", <<"Invalid token response format: ", "<body>">>, 0, responseText)
    ELSE IF tokenResponse.t \in {"null", "undefined"}
    THEN XThrow("TypeError", <<"Cannot read properties of null (reading 'access_token')">>, 0, "")
    ELSE IF ~Truthy(Prop(tokenResponse, "access_token"))
    THEN XThrow("Error", <<"Invalid token response: Missing access_token">>, 0, "")
    ELSE IF Prop(tokenResponse, "access_token").t # "string"
    THEN XThrow("TypeError", <<"tokenResponse.access_token.substring is not a function">>, 0, "")
    ELSE XReturn(TokenFrom(tokenResponse))

\* the try block with a token made up for a failed request
HandleTokenResponseFallbackToken(resp) ==
    LET responseText == ResponseText(resp)
        tokenResponse == JSONparse(responseText)
    IN
    IF ~IsOk(resp.status)
    THEN XReturn(TokenFrom(Obj(<<Field("access_token", Str("unknown-token"))>>)))
    ELSE IF tokenResponse = ParseError
    THEN XThrow("Error", <<"Invalid token response format: ", "<body>">>, 0, responseText)
    ELSE IF tokenResponse.t \in {"null", "undefined"}
    THEN XThrow("TypeError", <<"Cannot read properties of null (reading 'access_token')">>, 0, "")
    ELSE IF ~Truthy(Prop(tokenResponse, "access_token"))
    THEN XThrow("Error", <<"Invalid token response: Missing access_token">>, 0, "")
    ELSE IF Prop(tokenResponse, "access_token").t # "string"
    THEN XThrow("TypeError", <<"tokenResponse.access_token.substring is not a function">>, 0, "")
    ELSE XReturn(TokenFrom(tokenResponse))

\* the try block of getTokenByCode once the token endpoint has answered
HandleTokenResponse(resp) ==
    LET responseText == ResponseText(resp)
        tokenResponse == JSONparse(responseText)
    IN
    IF ~IsOk(resp.status)
    THEN XThrow("Error", <<"Failed to exchange code for token: ", "<status>", " ", "<body>">>,
                resp.status, responseText)
    ELSE IF tokenResponse = ParseError
    THEN XThrow("Error", <<"Invalid token response format: ", "<body>">>, 0, responseText)
    ELSE IF tokenResponse.t \in {"null", "undefined"}
    THEN XThrow("TypeError", <<"Cannot read properties of null (reading 'access_token')">>, 0, "")
    ELSE IF ~Truthy(Prop(tokenResponse, "access_token"))
    THEN XThrow("Error", <<"Invalid token response: Missing access_token">>, 0, "")
    ELSE IF Prop(tokenResponse, "access_token").t # "string"
    THEN XThrow("TypeError", <<"tokenResponse.access_token.substring is not a function">>, 0, "")
    ELSE XReturn(TokenFrom(tokenResponse))

\* catch (error) { this.error(...); throw error; }
CatchExchangeError(error) == error

\* fetch itself fails
FetchFailed == XThrow("TypeError", <<"fetch failed">>, 0, "")

\* the credentials of the configured app and the callback URL of Homey
ConfiguredId == "77abcdefgh1234"

ConfiguredSecret == "s3cr3tV4lue0ne"

CallbackUrl == "https://callback.athom.com/oauth2/callback"

\* the length of the previews of the code and the client id
PreviewLen == 5

\* s.length > 5 ? s.substring(0, 5) + '...' : s
Preview(str) ==
    IF Len(str) > PreviewLen THEN SubSeq(str, 1, PreviewLen) \o "..." ELSE str

\* a value as URLSearchParams.toString() writes it
UrlEncode(str) ==
    CASE str = CallbackUrl -> "https%3A%2F%2Fcallback.athom.com%2Foauth2%2Fcallback"
      [] str = "{}" -> "%7B%7D"
      [] str = "{\"code\":42}" -> "%7B%22code%22%3A42%7D"
      [] str = " " -> "+"
      [] OTHER -> str

\* body.toString()
FormBody(codeStr) ==
    "grant_type=authorization_code&code=" \o UrlEncode(codeStr)
        \o "&client_id=" \o UrlEncode(clientStatic.clientId)
        \o "&client_secret=" \o UrlEncode(clientStatic.clientSecret)
        \o "&redirect_uri=" \o UrlEncode(clientStatic.redirectUrl)

\* the lines getTokenByCode logs before the fetch
ExchangeLogs(codeStr) ==
    { "Authorization code: " \o Preview(codeStr),
      "Using client ID: " \o Preview(clientStatic.clientId),
      "Using redirect URI: " \o clientStatic.redirectUrl,
      "Request body params: grant_type=authorization_code&code=" \o Preview(codeStr),
      "Full request body: " \o FormBody(codeStr) }

\* the lines getTokenByCode logs once the token endpoint has answered with
\* resp and the try block has ended with r
ResponseLogs(resp, r) ==
    { "Token response status: " \o ToString(resp.status) }
        \cup (IF resp.readable THEN { "Token response body: " \o resp.text } ELSE {})
        \cup (IF r.kind = "return"
               THEN { "Received access token: "
                        \o SubSeq(r.token.access_token.s, 1,
                                   IF Len(r.token.access_token.s) > PreviewLen
                                   THEN PreviewLen ELSE Len(r.token.access_token.s))
                        \o "..." }
               ELSE {})

\* getTokenByCode(code) up to its fetch: the code is extracted and checked,
\* then the exchange is sent to TOKEN_URL with the credentials and the
\* redirect URL the class holds at that moment
GetTokenByCode(c, code) ==
    /\ xpc[c] = "idle"
    /\ built[c].made
    /\ xcode' = [xcode EXCEPT ![c] = code]
    /\ xcodeStr' = [xcodeStr EXCEPT ![c] = ExtractCode(code)]
    /\ IF InvalidCodeStr(ExtractCode(code))
       THEN /\ xpc' = [xpc EXCEPT ![c] = "done"]
            /\ xout' = [xout EXCEPT ![c] =
                          XThrow("Error", <<"Invalid authorization code. Please try again.">>, 0, "")]
            /\ UNCHANGED <<tokenPosts, logs>>
       ELSE /\ xpc' = [xpc EXCEPT ![c] = "fetching"]
            /\ tokenPosts' = Append(tokenPosts,
                                    [call |-> c, grant_type |-> "authorization_code",
                                     code |-> ExtractCode(code),
                                     client_id |-> clientStatic.clientId,
                                     client_secret |-> clientStatic.clientSecret,
                                     redirect_uri |-> clientStatic.redirectUrl])
            /\ logs' = logs \cup ExchangeLogs(ExtractCode(code))
            /\ UNCHANGED xout
    /\ UNCHANGED <<xresp, xthrown>>
    /\ UNCHANGED <<reqVars, otherVars>>

\* the token endpoint answers and getTokenByCode runs to its end
TokenResponse(c, resp) ==
    /\ xpc[c] = "fetching"
    /\ xresp' = [xresp EXCEPT ![c] = resp]
    /\ LET r == HandleTokenResponse(resp) IN
       /\ xthrown' = [xthrown EXCEPT ![c] = IF r.kind = "throw" THEN r ELSE XPending]
       /\ xout' = [xout EXCEPT ![c] = IF r.kind = "throw" THEN CatchExchangeError(r) ELSE r]
       /\ logs' = logs \cup ResponseLogs(resp, r)
    /\ xpc' = [xpc EXCEPT ![c] = "done"]
    /\ UNCHANGED <<xcode, xcodeStr, tokenPosts>>
    /\ UNCHANGED <<reqVars, otherVars>>

\* the fetch fails: no response
TokenFetchFails(c) ==
    /\ xpc[c] = "fetching"
    /\ xthrown' = [xthrown EXCEPT ![c] = FetchFailed]
    /\ xout' = [xout EXCEPT ![c] = CatchExchangeError(FetchFailed)]
    /\ xpc' = [xpc EXCEPT ![c] = "done"]
    /\ UNCHANGED <<xcode, xcodeStr, xresp, tokenPosts, logs>>
    /\ UNCHANGED <<reqVars, otherVars>>

\* the arguments getTokenByCode is called with
CodeInputs ==
    { Str("AQT"), Str(""), Str("undefined"), Null, Undefined, Num("42"), Num("0"),
      Obj(<<>>),
      Obj(<<Field("code", Str("AQT"))>>),
      Obj(<<Field("code", Num("42"))>>),
      Obj(<<Field("code", Str("")), Field("state", Str("xyz"))>>),
      Obj(<<Field("state", Str("xyz"))>>),
      Obj(<<Field("url", Str("https://callback.athom.com/oauth2/callback?code=AQT&state=xyz"))>>),
      Obj(<<Field("url", Str("https://callback.athom.com/oauth2/callback?state=xyz"))>>),
      Obj(<<Field("url", Str("callback"))>>) }

TokenResponses ==
    { [status |-> st, readable |-> rd, text |-> b.text] :
        st \in TokenStatuses, rd \in BOOLEAN, b \in TokenBodies }

XNext ==
    \/ \E c \in Calls, code \in CodeInputs : GetTokenByCode(c, code)
    \/ \E c \in Calls, resp \in TokenResponses : TokenResponse(c, resp)
    \/ \E c \in Calls : TokenFetchFails(c)

\* no exchange has been called yet; callers are the calls to come
XInitFor(callers) ==
    /\ xpc = [c \in callers |-> "idle"]
    /\ xcode = [c \in callers |-> Undefined]
    /\ xcodeStr = [c \in callers |-> ""]
    /\ xresp = [c \in callers |-> NoResponse]
    /\ xthrown = [c \in callers |-> XPending]
    /\ xout = [c \in callers |-> XPending]
    /\ tokenPosts = <<>>
    /\ logs = {}

XInit == XInitFor(Calls)

(***************************************************************************)
(* Token refresh, as the base class runs it on 'refresh_token'             *)
(***************************************************************************)
NoRefresh == [state |-> "none", error |-> Pending]

Resolved == [state |-> "resolved", error |-> Pending]

Rejected(err) == [state |-> "rejected", error |-> err]

NoRefreshTokenError == Throw("NoRefreshTokenError", <<"No refresh token">>, 0, NoData)

TokenRefreshError == Throw("TokenRefreshError", <<"Token refresh failed at the provider">>, 0, NoData)

\* refreshToken's precondition: a token with a refresh token
CanRefresh(t) == t.present /\ t.refresh # 0

\* refreshToken() that sends an exchange of its own while one is in flight
refreshTokenEachCaller(t, inflight) ==
    IF ~CanRefresh(t) THEN "NoRefreshTokenError" ELSE "post"

\* refreshToken(): without a refresh token it fails and sends nothing; while a
\* refresh is in flight the caller waits for that one; otherwise the refresh
\* exchange is sent
refreshToken(t, inflight) ==
    IF ~CanRefresh(t) THEN "NoRefreshTokenError"
    ELSE IF inflight > 0 THEN "join"
    ELSE "post"

\* the token a successful refresh builds: the previous refresh token is kept
\* when the response has none
RefreshedToken(t, access, newRefresh) ==
    Token(access, IF newRefresh # 0 THEN newRefresh ELSE t.refresh)

(***************************************************************************)
(* onHandleResult                                                          *)
(***************************************************************************)
\* catch (error) { throw new Error(`LinkedIn API error: ${error.message}`) }
Rethrow(err) ==
    Throw("Error", <<"LinkedIn API error: ">> \o err.message, err.estatus, err.ebody)

\* onHandleResult with the catch around the refresh left out of account: a
\* failed refresh is answered like a successful one
onHandleResultIgnoringRefreshError(result, refresh) ==
    IF result.empty
    THEN Rethrow(Throw("Error", <<"Empty response received from LinkedIn API">>, 0, NoData))
    ELSE IF ~result.ok /\ result.status = 401
    THEN IF refresh.state = "none" THEN Await
         ELSE Return(ApiResponse(TRUE, 200, RefreshedData))
    ELSE IF ~result.ok /\ result.status = 400
    THEN Rethrow(Throw("Error", <<"LinkedIn API error: ", "<data>">>, 0, result.data))
    ELSE IF ~result.ok /\ result.status = 429
    THEN Rethrow(Throw("Error",
                       <<"LinkedIn API rate limit exceeded. Please try again later.">>,
                       0, NoData))
    ELSE Return(result)

\* onHandleResult that logs a failed refresh and hands the 401 result back
onHandleResultReturning401(result, refresh) ==
    IF result.empty
    THEN Rethrow(Throw("Error", <<"Empty response received from LinkedIn API">>, 0, NoData))
    ELSE IF ~result.ok /\ result.status = 401
    THEN CASE refresh.state = "none" -> Await
           [] refresh.state = "resolved" -> Return(ApiResponse(TRUE, 200, RefreshedData))
           [] refresh.state = "rejected" -> Return(result)
    ELSE IF ~result.ok /\ result.status = 400
    THEN Rethrow(Throw("Error", <<"LinkedIn API error: ", "<data>">>, 0, result.data))
    ELSE IF ~result.ok /\ result.status = 429
    THEN Rethrow(Throw("Error",
                       <<"LinkedIn API rate limit exceeded. Please try again later.">>,
                       0, NoData))
    ELSE Return(result)

\* LinkedInOAuth2Client.onHandleResult of lib/OAuth/LinkedInOAuth2Client.ts:
\* what the handler does with result, refresh being what
\* await this.emit('refresh_token') came to (NoRefresh: not reached yet)
onHandleResult(result, refresh) ==
    IF result.empty
    THEN Rethrow(Throw("Error", <<"Empty response received from LinkedIn API">>, 0, NoData))
    ELSE IF ~result.ok /\ result.status = 401
    THEN CASE refresh.state = "none" -> Await
           [] refresh.state = "resolved" -> Return(ApiResponse(TRUE, 200, RefreshedData))
           [] refresh.state = "rejected" ->
                Rethrow(Throw("Error", <<"Token refresh failed">>, 0, NoData))
    ELSE IF ~result.ok /\ result.status = 400
    THEN Rethrow(Throw("Error", <<"LinkedIn API error: ", "<data>">>, 0, result.data))
    ELSE IF ~result.ok /\ result.status = 429
    THEN Rethrow(Throw("Error",
                       <<"LinkedIn API rate limit exceeded. Please try again later.">>,
                       0, NoData))
    ELSE Return(result)

\* LinkedInOAuth2Client.onHandleResult of the draft: after the refresh it
\* returns this.get('/me', projection (id)); a refresh error is rethrown as is
onHandleResultDraft(result, refresh) ==
    IF result.empty
    THEN Throw("TypeError", <<"Cannot read properties of undefined (reading 'ok')">>, 0, NoData)
    ELSE IF ~result.ok /\ result.status = 401
    THEN CASE refresh.state = "none" -> Await
           [] refresh.state = "resolved" -> Get
           [] refresh.state = "rejected" -> refresh.error
    ELSE Return(result)

Handler(result, refresh) ==
    IF impl = "current" THEN onHandleResult(result, refresh)
    ELSE onHandleResultDraft(result, refresh)

(***************************************************************************)
(* Authenticated requests                                                  *)
(***************************************************************************)
Last(s) == s[Len(s)]

\* the result being handled by request r: the answer to its last send
Result(r) == ResultOf(Last(sends[r]).request, Last(sends[r]).status)

\* the handler of r has come to h: a return or a throw ends the call, a
\* this.get(probe) puts the probe in flight within the same call
Continue(r, h) ==
    IF h.kind = "get"
    THEN /\ pc' = [pc EXCEPT ![r] = "inflight"]
         /\ cur' = [cur EXCEPT ![r] = ProbeRequest]
         /\ outcome' = outcome
    ELSE /\ pc' = [pc EXCEPT ![r] = "done"]
         /\ cur' = cur
         /\ outcome' = [outcome EXCEPT ![r] = h]

\* a caller calls get(rq) or post(rq)
Call(r, rq) ==
    /\ pc[r] = "idle"
    /\ pc' = [pc EXCEPT ![r] = "inflight"]
    /\ req' = [req EXCEPT ![r] = rq]
    /\ cur' = [cur EXCEPT ![r] = rq]
    /\ UNCHANGED <<impl, revoked, apiAnswer, token, valid, nextGen, sends, refreshes,
                   outcome, refreshPosts, inFlight>>
    /\ UNCHANGED <<xVars, otherVars>>

\* the request in flight is sent with the current access token and the
\* provider answers it
Send(r) ==
    /\ pc[r] = "inflight"
    /\ Len(sends[r]) < MaxSends
    /\ sends' = [sends EXCEPT ![r] =
                    Append(@, [request |-> cur[r], access |-> getToken.access,
                               status |-> ProviderStatus(getToken.access)])]
    /\ pc' = [pc EXCEPT ![r] = "answered"]
    /\ UNCHANGED <<impl, revoked, apiAnswer, token, valid, nextGen, req, cur, refreshes,
                   outcome, refreshPosts, inFlight>>
    /\ UNCHANGED <<xVars, otherVars>>

\* the answer arrives and onHandleResult runs up to its await or its end; at
\* the await the refresh starts
Receive(r) ==
    /\ pc[r] = "answered"
    /\ LET h == Handler(Result(r), NoRefresh)
           start == refreshToken(getToken, inFlight)
       IN
       IF h.kind # "await"
       THEN /\ Continue(r, h)
            /\ UNCHANGED <<refreshes, refreshPosts, inFlight>>
       ELSE CASE start = "NoRefreshTokenError" ->
                 /\ refreshes' = [refreshes EXCEPT ![r] =
                                     Append(@, [exchange |-> 0, result |-> "NoRefreshTokenError"])]
                 /\ Continue(r, Handler(Result(r), Rejected(NoRefreshTokenError)))
                 /\ UNCHANGED <<refreshPosts, inFlight>>
              [] start = "join" ->
                 /\ refreshes' = [refreshes EXCEPT ![r] =
                                     Append(@, [exchange |-> refreshPosts, result |-> "pending"])]
                 /\ pc' = [pc EXCEPT ![r] = "refreshing"]
                 /\ UNCHANGED <<cur, outcome, refreshPosts, inFlight>>
              [] start = "post" ->
                 /\ refreshes' = [refreshes EXCEPT ![r] =
                                     Append(@, [exchange |-> refreshPosts + 1, result |-> "pending"])]
                 /\ pc' = [pc EXCEPT ![r] = "refreshing"]
                 /\ refreshPosts' = refreshPosts + 1
                 /\ inFlight' = inFlight + 1
                 /\ UNCHANGED <<cur, outcome>>
    /\ UNCHANGED <<impl, revoked, apiAnswer, token, valid, nextGen, req, sends>>
    /\ UNCHANGED <<xVars, otherVars>>

\* a refresh exchange is answered: with a new token, which becomes the
\* client's token, or with an error; every caller waiting for it gets the result
RefreshDone(ok, newRefresh) ==
    /\ inFlight > 0
    /\ inFlight' = inFlight - 1
    /\ IF ok
       THEN /\ token' = RefreshedToken(token, nextGen, newRefresh)
            /\ nextGen' = nextGen + 1
            /\ valid' = IF revoked THEN valid ELSE valid \cup {nextGen}
       ELSE UNCHANGED <<token, nextGen, valid>>
    /\ refreshes' =
         [r \in Req |->
            IF refreshes[r] # <<>> /\ Last(refreshes[r]).result = "pending"
            THEN [refreshes[r] EXCEPT ![Len(refreshes[r])].result =
                     IF ok THEN "resolved" ELSE "TokenRefreshError"]
            ELSE refreshes[r]]
    /\ UNCHANGED <<impl, revoked, apiAnswer, pc, req, cur, sends, outcome, refreshPosts>>
    /\ UNCHANGED <<xVars, otherVars>>

\* the handler of r goes on after await this.emit('refresh_token')
Resume(r) ==
    /\ pc[r] = "refreshing"
    /\ Last(refreshes[r]).result # "pending"
    /\ Continue(r, Handler(Result(r),
                           IF Last(refreshes[r]).result = "resolved"
                           THEN Resolved ELSE Rejected(TokenRefreshError)))
    /\ UNCHANGED <<impl, revoked, apiAnswer, token, valid, nextGen, req, sends, refreshes,
                   refreshPosts, inFlight>>
    /\ UNCHANGED <<xVars, otherVars>>

(***************************************************************************)
(* The device, its store and the lookups at rest                           *)
(***************************************************************************)
EmptyStore == [oauth2_token |-> Undefined, lastPostTime |-> Undefined]

NoStoreCall == [failed |-> FALSE, outcome |-> "none"]

NoLookup == [op |-> "none", visibility |-> "", status |-> 0, data |-> Undefined]

LookupPending == [kind |-> "pending", value |-> Undefined, name |-> ""]

DevIdle ==
    /\ store = EmptyStore
    /\ activeToken = Null
    /\ dpc = "off"
    /\ written = Null
    /\ restored = FALSE
    /\ storeCall = NoStoreCall
    /\ setError = ""

LookIdle ==
    /\ lpc = "idle"
    /\ lop = NoLookup
    /\ lnet = <<>>
    /\ lout = LookupPending

\* no isExpired call yet
NoExpiry == [now |-> 0, issuedAt |-> 0, expires_in |-> <<>>, skew |-> 0,
             called |-> FALSE, result |-> FALSE]

\* getActiveOAuth2Client has not been called
NotGot == [called |-> FALSE, client |-> FALSE, token |-> Null]

\* the time of the last post the device starts with
FirstPostTime == Str("2024-01-01T00:00:00.000Z")

\* the device has not posted
NoPost == [pc |-> "idle", op |-> "", r |-> 0, lastPostTime |-> FirstPostTime,
           capability |-> FirstPostTime, result |-> "none"]

\* the options of a client: made is false while it is not constructed
ClientOptions(clientId, clientSecret, redirectUrl) ==
    [made |-> TRUE, clientId |-> clientId, clientSecret |-> clientSecret,
     redirectUrl |-> redirectUrl]

NoClient == [made |-> FALSE, clientId |-> "", clientSecret |-> "", redirectUrl |-> ""]

\* the app has been started with its credentials in the settings, and the
\* clients have been constructed after that
Configured ==
    /\ settings = [client_id |-> ConfiguredId, client_secret |-> ConfiguredSecret]
    /\ clientStatic = [clientId |-> ConfiguredId, clientSecret |-> ConfiguredSecret,
                       redirectUrl |-> CallbackUrl]
    /\ built = [c \in Clients |-> ClientOptions(ConfiguredId, ConfiguredSecret, CallbackUrl)]
    /\ app = [state |-> "initialized", missing |-> FALSE, thrown |-> ""]

\* no post, no isExpired call, no active client
RestIdle ==
    /\ devPost = NoPost
    /\ expiry = NoExpiry
    /\ activeClient = FALSE
    /\ got = NotGot

AppIdle == Configured /\ RestIdle

OtherIdle == consumed = {} /\ DevIdle /\ LookIdle /\ AppIdle

(***************************************************************************)
(* Specification of the authenticated requests                             *)
(***************************************************************************)
InitTokens == { NoToken, Token(1, 0), Token(1, 1) }

ReqInit(loaded) ==
    /\ impl = loaded
    /\ revoked \in BOOLEAN
    /\ apiAnswer \in ApiStatuses \ {401}
    /\ token \in InitTokens
    /\ valid \in {{}, {1}}
    /\ nextGen = 2
    /\ pc = [r \in Req |-> "idle"]
    /\ req = [r \in Req |-> ProbeRequest]
    /\ cur = [r \in Req |-> ProbeRequest]
    /\ sends = [r \in Req |-> <<>>]
    /\ refreshes = [r \in Req |-> <<>>]
    /\ outcome = [r \in Req |-> Pending]
    /\ refreshPosts = 0
    /\ inFlight = 0

Init == ReqInit("current") /\ XInit /\ OtherIdle

Next ==
    \/ \E r \in Req, rq \in Requests : Call(r, rq)
    \/ \E r \in Req : Send(r)
    \/ \E r \in Req : Receive(r)
    \/ \E ok \in BOOLEAN, newRefresh \in {0, 2} : RefreshDone(ok, newRefresh)
    \/ \E r \in Req : Resume(r)

Spec == Init /\ [][Next]_vars

\* the same client with the draft's onHandleResult
InitDraft == ReqInit("draft") /\ XInit /\ OtherIdle

SpecDraft == InitDraft /\ [][Next]_vars

(***************************************************************************)
(* Claims about the authenticated requests                                 *)
(***************************************************************************)
Done(r) == pc[r] = "done"

\* the i-th refresh of request r ended with result
RefreshEnded(r, result) ==
    \E i \in 1..Len(refreshes[r]) : refreshes[r][i].result = result

\* request r waits for a refresh exchange
Waiting(r) == pc[r] = "refreshing" /\ Last(refreshes[r]).result = "pending"

\* the provider answers 200 to a request sent with the current token
ProviderNowAnswers200 == token.present /\ ProviderStatus(token.access) = 200

\* C1: a call whose first attempt was answered 401 and whose provider answers
\* 200 after the refresh returns the provider's 200 response to the retried
\* original request (same path and body), with exactly one refresh
C1_RetryReturnsProviderResponse ==
    \A r \in Req :
        ( /\ Done(r)
          /\ sends[r][1].status = 401
          /\ RefreshEnded(r, "resolved")
          /\ ProviderNowAnswers200 )
        => /\ Len(refreshes[r]) = 1
           /\ Len(sends[r]) = 2
           /\ sends[r][2].request = req[r]
           /\ sends[r][2].status = 200
           /\ outcome[r] = Return(ApiResponse(TRUE, 200, ProviderData(req[r], 200)))

\* C2: against a provider that keeps answering 401 a call sends the request
\* at most twice, refreshes at most once, and ends with a failure
C2_RevokedEndsAuthenticationExpired ==
    \A r \in Req :
        revoked =>
            /\ Len(sends[r]) <= 2
            /\ Len(refreshes[r]) <= 1
            /\ (Done(r) => outcome[r].kind = "throw")

\* C3: a response with ok = true is returned only when the provider answered
\* that same request with a 2xx status, and it carries the provider's status
\* and data
C3_OkOnlyFromProvider2xx ==
    \A r \in Req :
        (Done(r) /\ outcome[r].kind = "return" /\ outcome[r].ok)
        => \E i \in 1..Len(sends[r]) :
              /\ sends[r][i].request = req[r]
              /\ IsOk(sends[r][i].status)
              /\ outcome[r].status = sends[r][i].status
              /\ outcome[r].data = ProviderData(req[r], sends[r][i].status)

\* a status that is an error other than 401
OtherError(status) == ~IsOk(status) /\ status # 401

\* C4: an answer with a non-2xx status other than 401 makes the call fail
\* with an error that carries the status and the response body, without a
\* refresh and without a second send
C4_OtherStatusIsApiError ==
    \A r \in Req :
        (Done(r) /\ OtherError(sends[r][1].status))
        => /\ outcome[r].kind = "throw"
           /\ outcome[r].estatus = sends[r][1].status
           /\ outcome[r].ebody = ProviderData(req[r], sends[r][1].status)
           /\ Len(sends[r]) = 1
           /\ refreshes[r] = <<>>

ReqIdleWith(tok) ==
    /\ impl = "current"
    /\ revoked = FALSE
    /\ apiAnswer = 200
    /\ token = tok
    /\ valid = {}
    /\ nextGen = 1
    /\ pc = [r \in Req |-> "idle"]
    /\ req = [r \in Req |-> ProbeRequest]
    /\ cur = [r \in Req |-> ProbeRequest]
    /\ sends = [r \in Req |-> <<>>]
    /\ refreshes = [r \in Req |-> <<>>]
    /\ outcome = [r \in Req |-> Pending]
    /\ refreshPosts = 0
    /\ inFlight = 0

ReqIdle == ReqIdleWith(NoToken)

InitExchange == ReqIdle /\ XInit /\ OtherIdle

SpecExchange == InitExchange /\ [][XNext]_vars

(***************************************************************************)
(* Claims about the code exchange                                          *)
(***************************************************************************)
\* the token endpoint has answered exchange c and getTokenByCode has ended
Answered(c) == xpc[c] = "done" /\ xresp[c] # NoResponse

\* C8: on a non-success status of the token endpoint the exchange fails with
\* an error that carries the status code and the response body as read, it
\* returns no token, and the caller gets the error that was thrown, unchanged
C8_ExchangeErrorCarriesStatusAndBody ==
    \A c \in Calls :
        (Answered(c) /\ ~IsOk(xresp[c].status))
        => /\ xout[c].kind = "throw"
           /\ xout[c].estatus = xresp[c].status
           /\ xout[c].ebody = (IF xresp[c].readable THEN xresp[c].text ELSE "")
           /\ xout[c] = xthrown[c]

C8_ExchangeRejected ==
    \E c \in Calls :
        /\ Answered(c)
        /\ xresp[c].status = 400
        /\ xresp[c].readable
        /\ xresp[c].text = "{\"error\":\"invalid_request\"}"
        /\ xout[c].kind = "throw"

\* the body of a response holds no access token: it does not parse, or what
\* it parses to has no access_token or an empty one
NoAccessToken(resp) ==
    LET parsed == JSONparse(IF resp.readable THEN resp.text ELSE "") IN
    \/ parsed = ParseError
    \/ ~HasProp(parsed, "access_token")
    \/ Prop(parsed, "access_token") = Str("")

\* the errors getTokenByCode throws for a malformed token response
MalformedTokenResponse(err) ==
    /\ err.kind = "throw"
    /\ err.name = "Error"
    /\ err.message[1] \in {"Invalid token response format: ",
                           "Invalid token response: Missing access_token"}

\* C9: a success status with a body that holds no access token makes the
\* exchange fail with the malformed-response error; every token returned has
\* a non-empty access token
C9_MissingAccessTokenIsMalformed ==
    \A c \in Calls :
        (Answered(c) /\ IsOk(xresp[c].status))
        => /\ NoAccessToken(xresp[c]) => MalformedTokenResponse(xout[c])
           /\ xout[c].kind = "return"
              => /\ xout[c].token.access_token.t = "string"
                 /\ xout[c].token.access_token.s # ""

\* a non-empty string code can be extracted from the argument: it is one, or
\* an object whose code is one, or an object whose url carries one
HasStringCode(code) ==
    \/ code.t = "string" /\ code.s # ""
    \/ /\ code.t = "object"
       /\ \/ Prop(code, "code").t = "string" /\ Prop(code, "code").s # ""
          \/ /\ Prop(code, "url").t = "string"
             /\ IsUrl(Prop(code, "url").s)
             /\ CodeParam(Prop(code, "url").s) # ""

\* C10: an argument from which no non-empty string code can be extracted
\* makes the exchange fail with the invalid-code error and nothing is sent to
\* the token endpoint; the serialized argument is never sent as the code
C10_NoCodeNoExchange ==
    /\ \A c \in Calls :
          (xpc[c] # "idle" /\ ~HasStringCode(xcode[c]))
          => /\ xpc[c] = "done"
             /\ xout[c].kind = "throw"
             /\ xout[c].message = <<"Invalid authorization code. Please try again.">>
             /\ \A i \in 1..Len(tokenPosts) : tokenPosts[i].call # c
    /\ \A i \in 1..Len(tokenPosts) :
          xcode[tokenPosts[i].call].t = "object"
          => tokenPosts[i].code # JSONstringify(xcode[tokenPosts[i].call])

(***************************************************************************)
(* The device and its store: LinkedInUserDevice                            *)
(***************************************************************************)
\* the object getTokenByCode returns
TokenObject(tok) ==
    Obj(<<Field("access_token", tok.access_token),
          Field("refresh_token", tok.refresh_token),
          Field("token_type", tok.token_type),
          Field("expires_in", tok.expires_in),
          Field("id_token", tok.id_token)>>)

\* what the device store keeps of a value: its JSON form, in which an
\* object has the properties whose value is not undefined
JsonClone(v) ==
    IF v.t = "object"
    THEN Obj(SelectSeq(v.fields, LAMBDA f : f.v.t # "undefined"))
    ELSE v

\* a token with a non-empty access token
HasAccessToken(tok) ==
    /\ tok.t = "object"
    /\ Prop(tok, "access_token").t = "string"
    /\ Prop(tok, "access_token").s # ""

\* setToken that takes any token
setTokenUnchecked(current, tok) == [token |-> tok, error |-> ""]

\* setToken(tok) on a client that holds current: the token held afterwards
\* and the error thrown ("": none)
setToken(current, tok) ==
    IF HasAccessToken(tok)
    THEN [token |-> tok, error |-> ""]
    ELSE [token |-> current, error |-> "InvalidTokenError"]

\* storeToken that writes the access and refresh tokens only
storeTokenWithoutIdToken(st, tok, fails) ==
    IF fails
    THEN [store |-> st, failed |-> TRUE, outcome |-> "returned"]
    ELSE [store |-> [st EXCEPT !.oauth2_token =
                        JsonClone(Obj(<<Field("access_token", Prop(tok, "access_token")),
                                        Field("refresh_token", Prop(tok, "refresh_token"))>>))],
          failed |-> FALSE, outcome |-> "returned"]

\* storeToken(tok) on the store st, with a setStoreValue that fails or not:
\* the store afterwards and what the caller receives
storeToken(st, tok, fails) ==
    IF fails
    THEN [store |-> st, failed |-> TRUE, outcome |-> "returned"]
    ELSE [store |-> [st EXCEPT !.oauth2_token = JsonClone(tok)],
          failed |-> FALSE, outcome |-> "returned"]

\* getStoredToken(), with a getStoreValue that fails or not
getStoredToken(st, fails) == IF fails THEN Null ELSE st.oauth2_token

\* the tokens a session is given
SessionTokens ==
    { Obj(<<Field("access_token", Str("AQV")), Field("refresh_token", Str("AQW")),
            Field("token_type", Undefined), Field("expires_in", Num("5184000")),
            Field("id_token", Str("eyJ"))>>),
      Obj(<<Field("access_token", Str("AQX")), Field("refresh_token", Undefined),
            Field("token_type", Undefined), Field("expires_in", Num("5184000")),
            Field("id_token", Undefined)>>),
      Obj(<<Field("refresh_token", Str("AQW"))>>),
      Obj(<<Field("access_token", Str(""))>>) }

\* the base class sets the token of the device's client (pairing)
SetToken(tok) ==
    /\ dpc # "deleted"
    /\ LET s == setToken(token, tok) IN
       /\ token' = s.token
       /\ setError' = s.error
       /\ restored' = IF s.error = "" THEN FALSE ELSE restored
    /\ UNCHANGED <<store, activeToken, dpc, written, storeCall>>
    /\ UNCHANGED <<impl, revoked, apiAnswer, valid, nextGen, pc, req, cur, sends,
                   refreshes, outcome, refreshPosts, inFlight>>
    /\ UNCHANGED <<xVars, consumed, lookVars, appVars>>

\* onOAuth2Init: a client with a token has it stored, a client without one
\* is given the stored token
OnOAuth2Init(readFails, writeFails) ==
    /\ dpc = "off"
    /\ dpc' = "ready"
    /\ IF Truthy(getToken) /\ Truthy(Prop(getToken, "access_token"))
       THEN LET w == storeToken(store, getToken, writeFails) IN
            /\ store' = w.store
            /\ storeCall' = [failed |-> w.failed, outcome |-> w.outcome]
            /\ written' = IF w.failed THEN written ELSE getToken
            /\ UNCHANGED <<token, restored, setError>>
       ELSE LET storedToken == getStoredToken(store, readFails) IN
            IF Truthy(storedToken)
            THEN LET s == setToken(token, storedToken) IN
                 /\ token' = s.token
                 /\ setError' = s.error
                 /\ restored' = (s.error = "")
                 /\ UNCHANGED <<store, storeCall, written>>
            ELSE UNCHANGED <<token, restored, setError, store, storeCall, written>>
    /\ UNCHANGED activeToken
    /\ UNCHANGED <<impl, revoked, apiAnswer, valid, nextGen, pc, req, cur, sends,
                   refreshes, outcome, refreshPosts, inFlight>>
    /\ UNCHANGED <<xVars, consumed, lookVars, appVars>>

\* onOAuth2Deleted: the two values are removed from the store; the first
\* removal that fails ends the clean-up
OnOAuth2Deleted(firstFails, secondFails) ==
    /\ dpc = "ready"
    /\ dpc' = "deleted"
    /\ store' = IF firstFails THEN store
                ELSE IF secondFails THEN [store EXCEPT !.oauth2_token = Undefined]
                ELSE EmptyStore
    /\ written' = IF firstFails THEN written ELSE Null
    /\ UNCHANGED <<activeToken, restored, storeCall, setError>>
    /\ UNCHANGED reqVars
    /\ UNCHANGED <<xVars, consumed, lookVars, appVars>>

\* the tokens a client handed to setActiveOAuth2Client may hold
ClientTokens == { setToken(Null, t).token : t \in SessionTokens }

\* the saved sessions the app finds: none, or one session with its data
SavedSessions ==
    { Undefined, Obj(<<Field("token", Undefined)>>) }
    \cup { Obj(<<Field("token", t)>>) : t \in SessionTokens }

\* getActiveOAuth2Client: the active client if it holds a token, else a new
\* client that is given the token of the saved session
GetActiveOAuth2Client(sessionData) ==
    /\ IF activeClient /\ Truthy(activeToken)
       THEN /\ got' = [called |-> TRUE, client |-> TRUE, token |-> activeToken]
            /\ UNCHANGED <<activeClient, activeToken, setError>>
       ELSE IF Truthy(sessionData)
       THEN LET s == IF Truthy(Prop(sessionData, "token"))
                     THEN setToken(Null, Prop(sessionData, "token"))
                     ELSE [token |-> Null, error |-> ""] IN
            /\ activeClient' = TRUE
            /\ activeToken' = s.token
            /\ setError' = s.error
            /\ got' = [called |-> TRUE, client |-> TRUE, token |-> s.token]
       ELSE /\ got' = [called |-> TRUE, client |-> FALSE, token |-> Null]
            /\ UNCHANGED <<activeClient, activeToken, setError>>
    /\ UNCHANGED <<store, dpc, written, restored, storeCall>>
    /\ UNCHANGED reqVars
    /\ UNCHANGED <<xVars, consumed, lookVars, expiry, devPost, cfgVars>>

\* setActiveOAuth2Client(client): the client is kept whatever token it holds
SetActiveOAuth2Client(tok) ==
    /\ activeClient' = TRUE
    /\ activeToken' = tok
    /\ setError' = ""
    /\ UNCHANGED <<store, dpc, written, restored, storeCall, got>>
    /\ UNCHANGED reqVars
    /\ UNCHANGED <<xVars, consumed, lookVars, expiry, devPost, cfgVars>>

\* the app is restarted: the clients are new, the device store is kept
Restart ==
    /\ dpc # "off"
    /\ dpc' = "off"
    /\ token' = Null
    /\ activeToken' = Null
    /\ activeClient' = FALSE
    /\ got' = NotGot
    /\ restored' = FALSE
    /\ storeCall' = NoStoreCall
    /\ setError' = ""
    /\ UNCHANGED <<store, written>>
    /\ UNCHANGED <<impl, revoked, apiAnswer, valid, nextGen, pc, req, cur, sends,
                   refreshes, outcome, refreshPosts, inFlight>>
    /\ UNCHANGED <<xVars, consumed, lookVars, expiry, devPost, cfgVars>>

DevNext ==
    \/ \E tok \in SessionTokens : SetToken(tok)
    \/ \E readFails \in BOOLEAN, writeFails \in BOOLEAN : OnOAuth2Init(readFails, writeFails)
    \/ \E firstFails \in BOOLEAN, secondFails \in BOOLEAN :
          OnOAuth2Deleted(firstFails, secondFails)
    \/ \E sessionData \in SavedSessions : GetActiveOAuth2Client(sessionData)
    \/ \E tok \in ClientTokens : SetActiveOAuth2Client(tok)
    \/ Restart

\* a device that is not initialised yet, its client without a token, its
\* store with or without the time of an earlier post
InitDevice ==
    /\ ReqIdleWith(Null)
    /\ XInit
    /\ consumed = {}
    /\ LookIdle
    /\ AppIdle
    /\ store \in { EmptyStore,
                   [EmptyStore EXCEPT !.lastPostTime = FirstPostTime] }
    /\ activeToken = Null
    /\ dpc = "off"
    /\ written = Null
    /\ restored = FALSE
    /\ storeCall = NoStoreCall
    /\ setError = ""

SpecDevice == InitDevice /\ [][DevNext]_vars

(***************************************************************************)
(* Claims about the token and its persistence                              *)
(***************************************************************************)
\* C11: when getTokenByCode returns a token, the client's token and the
\* token in the device store are that token
C11_ExchangeSetsAndPersistsToken ==
    \A c \in DOMAIN xout :
        xout[c].kind = "return"
        => /\ token = TokenObject(xout[c].token)
           /\ store.oauth2_token = JsonClone(TokenObject(xout[c].token))

HeldTokenOk(tok) == tok = Null \/ HasAccessToken(tok)

\* C13: the token a client holds is absent or has a non-empty access token,
\* and a setToken that fails with InvalidTokenError leaves the tokens held
\* as they were
C13_HeldTokenHasAccessToken ==
    [][ /\ HeldTokenOk(token') /\ HeldTokenOk(activeToken')
        /\ (setError' = "InvalidTokenError"
            => token' = token /\ activeToken' = activeToken) ]_vars

C13_InvalidTokenRejected ==
    /\ setError = "InvalidTokenError"
    /\ HasAccessToken(token)

C15_DeletedDeviceHasNoStoredToken ==
    dpc = "deleted" => store.oauth2_token = Undefined

\* C16: a storeToken whose write fails ends with a PersistenceError for its
\* caller
C16_FailedWriteIsReported ==
    storeCall.failed => storeCall.outcome = "PersistenceError"

(***************************************************************************)
(* Concurrent code exchanges against a provider that accepts a code once   *)
(***************************************************************************)
Concurrent == 1..NumConcurrent

\* the authorization codes the provider has issued
IssuedCodes == {"AQT"}

\* the bodies the provider sends with a token
GrantBodies == { b \in TokenBodies : b.json.t = "object" /\ HasAccessToken(b.json) }

\* the provider answers exchange c: a token for an issued code it has not
\* accepted before, 400 otherwise; getTokenByCode then runs to its end
ProviderAnswers(c, grant) ==
    /\ xpc[c] = "fetching"
    /\ LET accepted == xcodeStr[c] \in IssuedCodes \ consumed
           resp == IF accepted
                   THEN [status |-> 200, readable |-> TRUE, text |-> grant.text]
                   ELSE [status |-> 400, readable |-> TRUE,
                         text |-> "{\"error\":\"invalid_request\"}"]
           r == HandleTokenResponse(resp)
       IN
       /\ consumed' = IF accepted THEN consumed \cup {xcodeStr[c]} ELSE consumed
       /\ xresp' = [xresp EXCEPT ![c] = resp]
       /\ xthrown' = [xthrown EXCEPT ![c] = IF r.kind = "throw" THEN r ELSE XPending]
       /\ xout' = [xout EXCEPT ![c] = IF r.kind = "throw" THEN CatchExchangeError(r) ELSE r]
       /\ logs' = logs \cup ResponseLogs(resp, r)
    /\ xpc' = [xpc EXCEPT ![c] = "done"]
    /\ UNCHANGED <<xcode, xcodeStr, tokenPosts>>
    /\ UNCHANGED <<reqVars, devVars, lookVars, appVars>>

OnceNext ==
    \/ \E c \in Concurrent, code \in CodeInputs : GetTokenByCode(c, code)
    \/ \E c \in Concurrent, grant \in GrantBodies : ProviderAnswers(c, grant)

InitOnce == ReqIdle /\ XInitFor(Concurrent) /\ OtherIdle

SpecOnce == InitOnce /\ [][OnceNext]_vars

\* the error of a rejected exchange
TokenExchangeError(err) ==
    /\ err.kind = "throw"
    /\ err.name = "Error"
    /\ Head(err.message) = "Failed to exchange code for token: "
    /\ err.estatus = 400

\* the exchanges of the issued code k that the provider has answered
AnsweredFor(k) == { c \in DOMAIN xpc : xpc[c] = "done" /\ xcodeStr[c] = k }

\* C12: of the exchanges called with the same issued code, exactly one
\* returns a token and every other one fails with the error of a rejected
\* exchange
C12_OneExchangeOfACodeSucceeds ==
    \A k \in IssuedCodes :
        AnsweredFor(k) # {}
        => /\ Cardinality({ c \in AnsweredFor(k) : xout[c].kind = "return" }) = 1
           /\ \A c \in AnsweredFor(k) :
                 xout[c].kind # "return" => TokenExchangeError(xout[c])

C12_TwoExchangesOfOneCode ==
    \E k \in IssuedCodes : Cardinality(AnsweredFor(k)) >= 2

(***************************************************************************)
(* Profile lookup, email lookup and posting                                *)
(***************************************************************************)
\* identity tokens: the text, the number of parts split('.') gives and what
\* JSON.parse makes of the decoded second part
IdTokens ==
    { [text |-> "eyJ.c3ViK2VtYWls.sig", parts |-> 3,
       payload |-> Obj(<<Field("sub", Str("abc123")), Field("email", Str("ada@example.com"))>>)],
      [text |-> "eyJ.c3Vi.sig", parts |-> 3,
       payload |-> Obj(<<Field("sub", Str("abc123"))>>)],
      [text |-> "eyJ.e30.sig", parts |-> 3, payload |-> Obj(<<>>)],
      [text |-> "eyJ.bm9qc29u.sig", parts |-> 3, payload |-> ParseError],
      [text |-> "eyJ", parts |-> 1, payload |-> ParseError] }

\* parseJwtToken(token): the payload, null for a token that is not three
\* parts or whose payload does not parse
parseJwtToken(text) ==
    LET jwt == CHOOSE e \in IdTokens : e.text = text IN
    IF jwt.parts # 3 THEN Null
    ELSE IF jwt.payload = ParseError THEN Null
    ELSE jwt.payload

\* the tokens the client holds when a lookup is made
LookupTokens ==
    { Null,
      Obj(<<Field("access_token", Str("AQV")), Field("refresh_token", Str("AQW"))>>) }
    \cup { Obj(<<Field("access_token", Str("AQV")), Field("id_token", Str(e.text))>>) :
             e \in IdTokens }

\* what the caller of a lookup receives
LookupReturn(v) == [kind |-> "return", value |-> v, name |-> ""]

\* postMessage returns what this.post gives for the request
LookupPost(rq) == [kind |-> "post", value |-> rq, name |-> ""]

Profile(id, first, last) ==
    Obj(<<Field("id", id), Field("localizedFirstName", first),
          Field("localizedLastName", last)>>)

fallbackProfile == Profile(Str("unknown-profile"), Str("LinkedIn"), Str("User"))

\* a || b
Or(a, b) == IF Truthy(a) THEN a ELSE b

\* the answers to GET /me: the status and what fetchResponse.json() gives
ProfileBodies ==
    { Obj(<<Field("id", Str("abc123")), Field("localizedFirstName", Str("Ada")),
            Field("localizedLastName", Str("Lovelace"))>>),
      Obj(<<Field("id", Str("abc123"))>>),
      Obj(<<Field("id", Str(""))>>),
      Obj(<<Field("message", Str("Not enough permissions"))>>),
      Null,
      ParseError }

LookupStatuses == {200, 401, 403, 500}

\* getUserProfile once GET /me is answered
ProfileFrom(status, data) ==
    IF ~IsOk(status)
    THEN Profile(Str("error-" \o ToString(status)), Str("LinkedIn"), Str("User"))
    ELSE IF data = ParseError
    THEN Profile(Str("parse-error"), Str("LinkedIn"), Str("User"))
    ELSE IF ~Truthy(data) \/ ~Truthy(Prop(data, "id"))
    THEN Profile(Str("missing-id"), Str("LinkedIn"), Str("User"))
    ELSE Profile(Prop(data, "id"),
                 Or(Prop(data, "localizedFirstName"), Str("LinkedIn")),
                 Or(Prop(data, "localizedLastName"), Str("User")))

\* getUserProfile when the fetch fails
ProfileApiError ==
    Obj(<<Field("id", Str("api-error")), Field("localizedFirstName", Str("LinkedIn")),
          Field("localizedLastName", Str("User")), Field("error", Str("fetch failed"))>>)

\* getUserId: profile.id || 'unknown-user-id'
getUserId(profile) == Or(Prop(profile, "id"), Str("unknown-user-id"))

\* the request postMessage hands to this.post
UgcPost(userId, visibility) ==
    [method |-> "POST", path |-> "/ugcPosts",
     author |-> "urn:li:person:" \o JsString(userId), visibility |-> visibility]

ProfileRequest(tok) ==
    [method |-> "GET", path |-> "/me?fields=id,localizedFirstName,localizedLastName",
     author |-> "", visibility |-> "", bearer |-> Prop(tok, "access_token")]

\* the device onPairListDevices returns: data.id, store.profileId
PairDevice(id, profileId) ==
    Obj(<<Field("data", Obj(<<Field("id", id)>>)),
          Field("store", Obj(<<Field("profileId", profileId)>>))>>)

\* onPairListDevices once getUserProfile has returned: the user's id is
\* read from profile.sub, and without it the error device is returned
ListDevices(profile) ==
    IF ~Truthy(profile) \/ ~Truthy(Prop(profile, "sub"))
    THEN PairDevice(Str("error-<timestamp>"), Str("error"))
    ELSE PairDevice(Prop(profile, "sub"), Prop(profile, "sub"))

\* getUserProfile has its profile: the caller of getUserProfile receives
\* it, postMessage goes on to post with its id
HaveProfile(profile, sent) ==
    /\ lpc' = "done"
    /\ IF lop'.op = "getUserProfile"
       THEN /\ lout' = LookupReturn(profile)
            /\ lnet' = sent
       ELSE IF lop'.op = "onPairListDevices"
       THEN /\ lout' = LookupReturn(ListDevices(profile))
            /\ lnet' = sent
       ELSE /\ lout' = LookupPost(UgcPost(getUserId(profile), lop'.visibility))
            /\ lnet' = Append(sent, UgcPost(getUserId(profile), lop'.visibility))

\* getUserProfile up to its fetch, on its own or from postMessage
StartProfile ==
    IF ~Truthy(getToken) \/ ~Truthy(Prop(getToken, "access_token"))
    THEN HaveProfile(fallbackProfile, lnet)
    ELSE /\ lpc' = "profile"
         /\ lnet' = Append(lnet, ProfileRequest(getToken))
         /\ UNCHANGED lout

GetUserProfile ==
    /\ lpc = "idle"
    /\ lop' = [NoLookup EXCEPT !.op = "getUserProfile"]
    /\ StartProfile
    /\ UNCHANGED <<reqVars, xVars, consumed, devVars, appVars>>

\* postMessage(message, visibility): visibility is 'CONNECTIONS' when not
\* given
PostMessage(visibility) ==
    /\ lpc = "idle"
    /\ lop' = [NoLookup EXCEPT !.op = "postMessage",
                               !.visibility = IF visibility = Undefined THEN "CONNECTIONS"
                                              ELSE JsString(visibility)]
    /\ StartProfile
    /\ UNCHANGED <<reqVars, xVars, consumed, devVars, appVars>>

\* onPairListDevices({ oAuth2Client }) up to the fetch of getUserProfile
OnPairListDevices ==
    /\ lpc = "idle"
    /\ lop' = [NoLookup EXCEPT !.op = "onPairListDevices"]
    /\ StartProfile
    /\ UNCHANGED <<reqVars, xVars, consumed, devVars, appVars>>

\* GET /me is answered
ProfileResponse(status, data) ==
    /\ lpc = "profile"
    /\ lop' = [lop EXCEPT !.status = status, !.data = data]
    /\ HaveProfile(ProfileFrom(status, data), lnet)
    /\ UNCHANGED <<reqVars, xVars, consumed, devVars, appVars>>

\* the fetch of GET /me fails
ProfileFetchFails ==
    /\ lpc = "profile"
    /\ lop' = lop
    /\ HaveProfile(ProfileApiError, lnet)
    /\ UNCHANGED <<reqVars, xVars, consumed, devVars, appVars>>

\* an array of no or one element
Arr(items) ==
    Obj(IF items = <<>> THEN <<Field("length", Num("0"))>>
        ELSE <<Field("0", items[1]), Field("length", Num("1"))>>)

fallbackEmail == Str("unknown@email.com")

\* the answers to GET /emailAddress: what fetchResponse.json() gives
EmailBodies ==
    { Obj(<<Field("elements",
                  Arr(<<Obj(<<Field("handle~",
                                    Obj(<<Field("emailAddress", Str("ada@example.com"))>>))>>)>>))>>),
      Obj(<<Field("elements",
                  Arr(<<Obj(<<Field("handle",
                                    Obj(<<Field("emailAddress", Str("ada@example.com"))>>))>>)>>))>>),
      Obj(<<Field("elements", Arr(<<Obj(<<Field("handle", Str("urn:li:emailAddress:1"))>>)>>))>>),
      Obj(<<Field("elements", Arr(<<>>))>>),
      Obj(<<>>),
      Null,
      ParseError }

\* v.length > 0
NonEmpty(v) == Prop(v, "length").t = "number" /\ Prop(v, "length").s # "0"

\* getUserEmail once GET /emailAddress is answered
EmailFrom(status, data) ==
    LET elements == Prop(data, "elements")
        first == Prop(elements, "0")
    IN
    IF ~IsOk(status) THEN fallbackEmail
    ELSE IF data = ParseError THEN fallbackEmail
    ELSE IF ~Truthy(data) THEN fallbackEmail
    ELSE IF /\ Truthy(elements) /\ NonEmpty(elements)
            /\ Truthy(Prop(first, "handle~"))
            /\ Truthy(Prop(Prop(first, "handle~"), "emailAddress"))
    THEN Prop(Prop(first, "handle~"), "emailAddress")
    ELSE IF /\ Truthy(elements) /\ NonEmpty(elements)
            /\ Truthy(Prop(first, "handle"))
            /\ Truthy(Prop(Prop(first, "handle"), "emailAddress"))
    THEN Prop(Prop(first, "handle"), "emailAddress")
    ELSE fallbackEmail

EmailRequest(tok) ==
    [method |-> "GET", path |-> "/emailAddress?q=members&fields=elements,elements.handle~",
     author |-> "", visibility |-> "", bearer |-> Prop(tok, "access_token")]

\* the email claim of the token's identity token, undefined if there is none
JwtEmail(tok) ==
    IF Truthy(Prop(tok, "id_token"))
    THEN Prop(parseJwtToken(JsString(Prop(tok, "id_token"))), "email")
    ELSE Undefined

\* getUserEmail up to its fetch
GetUserEmail ==
    /\ lpc = "idle"
    /\ lop' = [NoLookup EXCEPT !.op = "getUserEmail"]
    /\ IF ~Truthy(getToken)
       THEN /\ lpc' = "done"
            /\ lout' = LookupReturn(fallbackEmail)
            /\ UNCHANGED lnet
       ELSE IF Truthy(JwtEmail(getToken))
       THEN /\ lpc' = "done"
            /\ lout' = LookupReturn(JwtEmail(getToken))
            /\ UNCHANGED lnet
       ELSE IF ~Truthy(Prop(getToken, "access_token"))
       THEN /\ lpc' = "done"
            /\ lout' = LookupReturn(fallbackEmail)
            /\ UNCHANGED lnet
       ELSE /\ lpc' = "email"
            /\ lnet' = Append(lnet, EmailRequest(getToken))
            /\ UNCHANGED lout
    /\ UNCHANGED <<reqVars, xVars, consumed, devVars, appVars>>

\* GET /emailAddress is answered
EmailResponse(status, data) ==
    /\ lpc = "email"
    /\ lop' = [lop EXCEPT !.status = status, !.data = data]
    /\ lpc' = "done"
    /\ lout' = LookupReturn(EmailFrom(status, data))
    /\ UNCHANGED lnet
    /\ UNCHANGED <<reqVars, xVars, consumed, devVars, appVars>>

\* the fetch of GET /emailAddress fails
EmailFetchFails ==
    /\ lpc = "email"
    /\ lpc' = "done"
    /\ lout' = LookupReturn(fallbackEmail)
    /\ UNCHANGED <<lop, lnet>>
    /\ UNCHANGED <<reqVars, xVars, consumed, devVars, appVars>>

\* the visibility values postMessage is called with
VisibilityInputs ==
    { Undefined, Str("PUBLIC"), Str("CONNECTIONS"), Str("RESTRICTED"), Str("CONTAINER"),
      Str("INVALID_VALUE"), Str("") }

LookNext ==
    \/ GetUserProfile
    \/ \E visibility \in VisibilityInputs : PostMessage(visibility)
    \/ OnPairListDevices
    \/ \E status \in LookupStatuses, data \in ProfileBodies : ProfileResponse(status, data)
    \/ ProfileFetchFails
    \/ GetUserEmail
    \/ \E status \in LookupStatuses, data \in EmailBodies : EmailResponse(status, data)
    \/ EmailFetchFails

InitLookup ==
    /\ \E tok \in LookupTokens : ReqIdleWith(tok)
    /\ XInit
    /\ consumed = {}
    /\ DevIdle
    /\ LookIdle
    /\ AppIdle

SpecLookup == InitLookup /\ [][LookNext]_vars

(***************************************************************************)
(* Claims about the lookups and posting                                    *)
(***************************************************************************)
\* the subject id of the token's identity token, undefined if there is none
JwtSubject(tok) ==
    IF Truthy(Prop(tok, "id_token"))
    THEN Prop(parseJwtToken(JsString(Prop(tok, "id_token"))), "sub")
    ELSE Undefined

NonEmptyString(v) == v.t = "string" /\ v.s # ""

\* the ids the identity token and the provider's answer give
GenuineIds ==
    { id \in { JwtSubject(token),
               IF IsOk(lop.status) THEN Prop(lop.data, "id") ELSE Undefined } :
        NonEmptyString(id) }

\* C17: a finished profile lookup has returned a profile with an id of the
\* identity token or of the provider's answer, or has failed with
\* ProfileUnavailableError when there is no such id
C17_ProfileIdIsGenuine ==
    (lpc = "done" /\ lop.op = "getUserProfile")
    => \/ lout.kind = "return" /\ Prop(lout.value, "id") \in GenuineIds
       \/ GenuineIds = {} /\ lout.kind = "throw" /\ lout.name = "ProfileUnavailableError"

\* C18: with an identity token that has a subject id, the profile lookup
\* sends no request and returns a profile with that id
C18_IdentityTokenBeforeRest ==
    (lop.op = "getUserProfile" /\ NonEmptyString(JwtSubject(token)))
    => /\ lnet = <<>>
       /\ lpc = "done" => /\ lout.kind = "return"
                          /\ Prop(lout.value, "id") = JwtSubject(token)

\* C19: a finished email lookup has returned an email other than the
\* placeholder, or has failed with EmailUnavailableError
C19_EmailIsNeverFabricated ==
    (lpc = "done" /\ lop.op = "getUserEmail")
    => \/ lout.kind = "return" /\ NonEmptyString(lout.value) /\ lout.value # fallbackEmail
       \/ lout.kind = "throw" /\ lout.name = "EmailUnavailableError"

Visibilities == {"PUBLIC", "CONNECTIONS", "RESTRICTED"}

\* C20: postMessage with a visibility outside PUBLIC, CONNECTIONS and
\* RESTRICTED sends nothing and fails with InvalidArgumentError
C20_InvalidVisibilitySendsNothing ==
    (lop.op = "postMessage" /\ lop.visibility \notin Visibilities)
    => /\ lnet = <<>>
       /\ lout.kind = "throw"
       /\ lout.name = "InvalidArgumentError"

\* the requests to /ugcPosts that have been sent
UgcPostsSent == { i \in 1..Len(lnet) : lnet[i].path = "/ugcPosts" }

\* C27: every post sent has an author made of an id of the identity token
\* or of the provider's answer, and a postMessage without such an id sends
\* no post and fails
C27_AuthorIsGenuine ==
    lop.op = "postMessage"
    => /\ \A i \in UgcPostsSent :
             \E id \in GenuineIds : lnet[i].author = "urn:li:person:" \o JsString(id)
       /\ (lpc = "done" /\ GenuineIds = {}) => lout.kind = "throw"

\* C28: when getUserProfile has given a profile with an id of the provider,
\* onPairListDevices returns the device with that id as data.id and as
\* store.profileId
C28_PairedDeviceHasProfileId ==
    (lpc = "done" /\ lop.op = "onPairListDevices"
        /\ IsOk(lop.status) /\ NonEmptyString(Prop(lop.data, "id")))
    => /\ Prop(Prop(lout.value, "data"), "id") = Prop(lop.data, "id")
       /\ Prop(Prop(lout.value, "store"), "profileId") = Prop(lop.data, "id")

(***************************************************************************)
(* The expiry of a token.  isTokenExpired is declared only; its rule is    *)
(* the specification's: a token is expired when issuedAt plus its lifetime *)
(* is not after now plus the skew, and a token without a lifetime is not   *)
(* expired.  expires_in is <<>> when absent and <<n>> when present.        *)
(***************************************************************************)
MaxTime == 4
MaxSkew == 3
DefaultSkew == 60
Hour == 3600

\* the moments of the clock: the first seconds, and the seconds around the
\* end of a token of one hour issued in the first seconds
Times ==
    (0..MaxTime)
        \cup { t0 + Hour + d : t0 \in 0..1, d \in {-DefaultSkew - 1, -DefaultSkew, -1, 0, 1} }

Lifetimes == { <<>> } \cup { <<n>> : n \in (0..MaxTime) \cup {Hour} }

Skews == (0..MaxSkew) \cup {DefaultSkew}

\* the rule with the expiry not counted as expired yet
isExpiredStrict(tok, now, skewSeconds) ==
    /\ tok.expires_in # <<>>
    /\ tok.issuedAt + tok.expires_in[1] < now + skewSeconds

\* the rule without the skew
isExpiredNoSkew(tok, now, skewSeconds) ==
    /\ tok.expires_in # <<>>
    /\ tok.issuedAt + tok.expires_in[1] <= now

\* isExpired(token, skewSeconds) at the moment now
isExpired(tok, now, skewSeconds) ==
    /\ tok.expires_in # <<>>
    /\ tok.issuedAt + tok.expires_in[1] <= now + skewSeconds

\* the clock moves on
ClockAdvances(t) ==
    /\ t > expiry.now
    /\ expiry' = [expiry EXCEPT !.now = t, !.called = FALSE, !.result = FALSE]
    /\ UNCHANGED <<reqVars, xVars, consumed, devVars, lookVars, actVars, devPost, cfgVars>>

\* a token is received: issuedAt is the moment of receipt
TokenReceived(lifetime) ==
    /\ expiry' = [expiry EXCEPT !.issuedAt = expiry.now, !.expires_in = lifetime,
                                !.called = FALSE, !.result = FALSE]
    /\ UNCHANGED <<reqVars, xVars, consumed, devVars, lookVars, actVars, devPost, cfgVars>>

\* isExpired(token, skewSeconds)
IsExpired(skewSeconds) ==
    /\ expiry' = [expiry EXCEPT !.skew = skewSeconds, !.called = TRUE,
                                !.result = isExpired(expiry, expiry.now, skewSeconds)]
    /\ UNCHANGED <<reqVars, xVars, consumed, devVars, lookVars, actVars, devPost, cfgVars>>

\* isExpired(token): skewSeconds takes its default
IsExpiredDefault == IsExpired(DefaultSkew)

ExpiryNext ==
    \/ \E t \in Times : ClockAdvances(t)
    \/ \E lifetime \in Lifetimes : TokenReceived(lifetime)
    \/ \E skewSeconds \in Skews : IsExpired(skewSeconds)
    \/ IsExpiredDefault

InitExpiry ==
    /\ ReqIdle
    /\ XInit
    /\ consumed = {}
    /\ DevIdle
    /\ LookIdle
    /\ AppIdle

SpecExpiry == InitExpiry /\ [][ExpiryNext]_vars

\* C24: for a token with a lifetime, isExpired is true exactly when now is
\* at or after issuedAt plus the lifetime minus the skew; for a token
\* without a lifetime it is false
C24_ExpiredFromLifetimeMinusSkew ==
    expiry.called
    => IF expiry.expires_in # <<>>
       THEN expiry.result
                <=> (expiry.now >= expiry.issuedAt + expiry.expires_in[1] - expiry.skew)
       ELSE ~expiry.result

\* isExpired has answered true at the very moment lifetime minus skew
C24_ExpiredAtTheBoundary ==
    /\ expiry.called
    /\ expiry.expires_in # <<>>
    /\ expiry.skew > 0
    /\ expiry.now = expiry.issuedAt + expiry.expires_in[1] - expiry.skew
    /\ expiry.result

\* isExpired() with its default skew on a token of one hour
HourTokenDefault ==
    expiry.called /\ expiry.expires_in = <<Hour>> /\ expiry.skew = DefaultSkew

C29_ActiveClientIsAuthenticated ==
    (got.called /\ got.client) => HasAccessToken(got.token)

(***************************************************************************)
(* The device posts: postTextUpdate and postLinkUpdate hand the text to    *)
(* client.postMessage, which posts to /ugcPosts through the client's       *)
(* request handling, and set lastPostTime when the result is ok.           *)
(***************************************************************************)
UgcRequest == [method |-> "POST", path |-> "/ugcPosts", body |-> "share"]

\* new Date().toISOString() at the time of the post
PostTime == Str("<now>")

PostOps == {"postTextUpdate", "postLinkUpdate"}

\* postTextUpdate / postLinkUpdate up to the request of client.postMessage
PostUpdate(op, r) ==
    /\ devPost.pc = "idle"
    /\ pc[r] = "idle"
    /\ devPost' = [devPost EXCEPT !.pc = "posting", !.op = op, !.r = r]
    /\ pc' = [pc EXCEPT ![r] = "inflight"]
    /\ req' = [req EXCEPT ![r] = UgcRequest]
    /\ cur' = [cur EXCEPT ![r] = UgcRequest]
    /\ UNCHANGED <<impl, revoked, apiAnswer, token, valid, nextGen, sends, refreshes,
                   outcome, refreshPosts, inFlight>>
    /\ UNCHANGED <<xVars, consumed, devVars, lookVars, expiry, actVars, cfgVars>>

\* client.postMessage has ended: the result is looked at, lastPostTime is
\* set, stored and shown; writeFails: setStoreValue rejects
PostUpdateEnds(writeFails) ==
    /\ devPost.pc = "posting"
    /\ Done(devPost.r)
    /\ LET result == outcome[devPost.r] IN
       IF result.kind = "throw"
       THEN /\ devPost' = [devPost EXCEPT !.pc = "done", !.result = "throw"]
            /\ UNCHANGED store
       ELSE IF result.ok
       THEN IF writeFails
            THEN /\ devPost' = [devPost EXCEPT !.pc = "done", !.result = "throw",
                                               !.lastPostTime = PostTime]
                 /\ UNCHANGED store
            ELSE /\ devPost' = [devPost EXCEPT !.pc = "done", !.result = "true",
                                               !.lastPostTime = PostTime,
                                               !.capability = PostTime]
                 /\ store' = [store EXCEPT !.lastPostTime = PostTime]
       ELSE /\ devPost' = [devPost EXCEPT !.pc = "done", !.result = "false"]
            /\ UNCHANGED store
    /\ UNCHANGED <<activeToken, dpc, written, restored, storeCall, setError>>
    /\ UNCHANGED <<reqVars, xVars, consumed, lookVars, expiry, actVars, cfgVars>>

PostNext ==
    \/ Next
    \/ \E op \in PostOps, r \in Req : PostUpdate(op, r)
    \/ \E writeFails \in BOOLEAN : PostUpdateEnds(writeFails)

\* an initialised device with the time of an earlier post in its store
InitPost ==
    /\ ReqInit("current")
    /\ XInit
    /\ consumed = {}
    /\ LookIdle
    /\ AppIdle
    /\ store = [EmptyStore EXCEPT !.lastPostTime = FirstPostTime]
    /\ activeToken = Null
    /\ dpc = "ready"
    /\ written = Null
    /\ restored = FALSE
    /\ storeCall = NoStoreCall
    /\ setError = ""

SpecPost == InitPost /\ [][PostNext]_vars

\* the provider has answered the post request itself with a 2xx status
PostAnswered2xx ==
    \E i \in 1..Len(sends[devPost.r]) :
        /\ sends[devPost.r][i].request = UgcRequest
        /\ IsOk(sends[devPost.r][i].status)

\* C26: a post of the device returns true and advances lastPostTime in
\* memory, in the store and in the capability only when the provider
\* answered the post request itself with a 2xx status; otherwise it does not
\* return true and lastPostTime stays as it was in all three places
C26_PostTimeOnlyAfterProvider2xx ==
    (devPost.pc = "done" /\ ~PostAnswered2xx)
    => /\ devPost.result # "true"
       /\ devPost.lastPostTime = FirstPostTime
       /\ store.lastPostTime = FirstPostTime
       /\ devPost.capability = FirstPostTime

(***************************************************************************)
(* The configuration: the app reads the credentials from its settings into *)
(* the static fields of the client class, at its start and on every change *)
(* of the settings; clients are constructed from the static fields, and    *)
(* the exchange reads the static fields again.                             *)
(***************************************************************************)
OtherId == "86zyxwvuts9876"

OtherSecret == "s3cr3tV4lueTw0"

\* the values of the settings: not set, blank, a value
ClientIds == {"", " ", ConfiguredId, OtherId}

ClientSecrets == {"", ConfiguredSecret, OtherSecret}

\* str.trim() === ''
Blank(str) == str \in {"", " "}

\* setClientId / setClientSecret: the value the static field gets
setClientId(value) == IF value # "" /\ ~Blank(value) THEN value ELSE ""

\* a || b on strings
OrStr(a, b) == IF a # "" THEN a ELSE b

\* updateOAuthCredentials(throwErrors): the static fields afterwards and
\* the error thrown ("": none)
updateOAuthCredentials(set, fields, throwErrors) ==
    LET afterId == IF set.client_id # ""
                   THEN [fields EXCEPT !.clientId = setClientId(set.client_id)]
                   ELSE fields
        afterSecret == IF set.client_secret # ""
                       THEN [afterId EXCEPT !.clientSecret = setClientId(set.client_secret)]
                       ELSE afterId
    IN
    IF set.client_id = "" /\ throwErrors
    THEN [fields |-> fields, thrown |-> "LinkedIn Client ID is required"]
    ELSE IF set.client_secret = "" /\ throwErrors
    THEN [fields |-> afterId, thrown |-> "LinkedIn Client Secret is required"]
    ELSE [fields |-> afterSecret, thrown |-> ""]

\* the app's onOAuth2Init: the callback URL, the credentials of the
\* settings, the listener to the settings; every error is logged only
AppOnOAuth2Init(callbackFails) ==
    /\ app.state = "none"
    /\ LET withUrl == IF callbackFails THEN clientStatic
                      ELSE [clientStatic EXCEPT !.redirectUrl = CallbackUrl]
       IN
       /\ clientStatic' = updateOAuthCredentials(settings, withUrl, FALSE).fields
       /\ app' = [state |-> "initialized",
                  missing |-> \/ Blank(settings.client_id)
                              \/ Blank(settings.client_secret)
                              \/ withUrl.redirectUrl = "",
                  thrown |-> ""]
    /\ UNCHANGED <<settings, built>>
    /\ UNCHANGED <<reqVars, xVars, consumed, devVars, lookVars, expiry, actVars, devPost>>

\* a setting is set; once the app listens, updateOAuthCredentials(true) runs
SettingsSet(key, value) ==
    /\ settings[key] # value
    /\ settings' = [settings EXCEPT ![key] = value]
    /\ IF app.state = "initialized"
       THEN LET u == updateOAuthCredentials(settings', clientStatic, TRUE) IN
            /\ clientStatic' = u.fields
            /\ app' = [app EXCEPT !.thrown = u.thrown]
       ELSE UNCHANGED <<clientStatic, app>>
    /\ UNCHANGED built
    /\ UNCHANGED <<reqVars, xVars, consumed, devVars, lookVars, expiry, actVars, devPost>>

\* the id as onInit logs it: the first four and the last four characters
IdPreview(id) ==
    SubSeq(id, 1, IF Len(id) > 4 THEN 4 ELSE Len(id)) \o "..."
        \o SubSeq(id, IF Len(id) > 4 THEN Len(id) - 3 ELSE 1, Len(id))

\* the lines onInit logs
InitLogs ==
    (IF clientStatic.clientId # ""
     THEN { "Using LinkedIn Client ID: " \o IdPreview(clientStatic.clientId) }
     ELSE { "LinkedIn Client ID is not set!" })
    \cup (IF clientStatic.clientSecret # ""
          THEN { "LinkedIn Client Secret is configured" }
          ELSE { "LinkedIn Client Secret is not set!" })
    \cup (IF clientStatic.redirectUrl # ""
          THEN { "Using redirect URL: " \o clientStatic.redirectUrl }
          ELSE { "OAuth2 redirect URL is not set!" })

\* new LinkedInOAuth2Client(options) and its onInit
NewClient(c, options) ==
    /\ ~built[c].made
    /\ built' = [built EXCEPT ![c] =
                    ClientOptions(
                        OrStr(clientStatic.clientId, OrStr(options.clientId, "placeholder-id")),
                        OrStr(clientStatic.clientSecret,
                              OrStr(options.clientSecret, "placeholder-secret")),
                        OrStr(clientStatic.redirectUrl, options.redirectUrl))]
    /\ logs' = logs \cup InitLogs
    /\ UNCHANGED <<xpc, xcode, xcodeStr, xresp, xthrown, xout, tokenPosts>>
    /\ UNCHANGED <<settings, clientStatic, app>>
    /\ UNCHANGED <<reqVars, consumed, devVars, lookVars, expiry, actVars, devPost>>

\* the options a client is constructed with: none, or the static fields
OptionsNow == { NoClient, ClientOptions(clientStatic.clientId, clientStatic.clientSecret,
                                        clientStatic.redirectUrl) }

ConfigCodes == { Str("AQT"), Str("AQT4x9Zk"), Undefined }

ConfigResponses ==
    { [status |-> 200, readable |-> TRUE,
       text |-> "{\"access_token\":\"AQVk3y8Tz\",\"expires_in\":5184000}"],
      [status |-> 400, readable |-> TRUE, text |-> "{\"error\":\"invalid_request\"}"] }

ConfigNext ==
    \/ \E callbackFails \in BOOLEAN : AppOnOAuth2Init(callbackFails)
    \/ \E value \in ClientIds : SettingsSet("client_id", value)
    \/ \E value \in ClientSecrets : SettingsSet("client_secret", value)
    \/ \E c \in Calls, options \in OptionsNow : NewClient(c, options)
    \/ \E c \in Calls, code \in ConfigCodes : GetTokenByCode(c, code)
    \/ \E c \in Calls, resp \in ConfigResponses : TokenResponse(c, resp)
    \/ \E c \in Calls : TokenFetchFails(c)

\* the app is not started, no client is constructed, the settings hold
\* what the user has entered so far
InitConfig ==
    /\ ReqIdle
    /\ XInit
    /\ consumed = {}
    /\ DevIdle
    /\ LookIdle
    /\ RestIdle
    /\ settings \in [client_id : ClientIds, client_secret : ClientSecrets]
    /\ clientStatic = [clientId |-> "", clientSecret |-> "", redirectUrl |-> ""]
    /\ built = [c \in Clients |-> NoClient]
    /\ app = [state |-> "none", missing |-> FALSE, thrown |-> ""]

SpecConfig == InitConfig /\ [][ConfigNext]_vars

\* C21: what an exchange sends as client_id, client_secret and redirect_uri
\* is what the client that sends it was constructed with
C21_ExchangeSendsConstructedValues ==
    \A i \in 1..Len(tokenPosts) :
        LET client == built[tokenPosts[i].call] IN
        /\ tokenPosts[i].client_id = client.clientId
        /\ tokenPosts[i].client_secret = client.clientSecret
        /\ tokenPosts[i].redirect_uri = client.redirectUrl

\* a credential that is no credential: empty or a placeholder
NoCredential(str) == str \in {"", "placeholder-id", "placeholder-secret"}

\* C22: when the client id, the client secret or the redirect URL is absent
\* at the start of the app, onOAuth2Init does not end as initialized, and no
\* client is constructed with, or sends in an exchange, an empty or
\* placeholder credential
C22_MissingConfigurationIsSurfaced ==
    (app.state # "none" /\ app.missing)
    => /\ app.state # "initialized"
       /\ \A c \in Calls :
             built[c].made
             => ~NoCredential(built[c].clientId) /\ ~NoCredential(built[c].clientSecret)
       /\ \A i \in 1..Len(tokenPosts) :
             /\ tokenPosts[i].client_id # ""
             /\ tokenPosts[i].client_secret # ""
             /\ tokenPosts[i].redirect_uri # ""

\* str occurs in line
Contains(line, str) ==
    \E i \in 1..(Len(line) - Len(str) + 1) : SubSeq(line, i, i + Len(str) - 1) = str

\* C23: no line of the log holds the whole client secret, the whole
\* authorization code or a whole token (values longer than a preview)
C23_NoSecretInLogs ==
    \A line \in logs :
        /\ \A secret \in ClientSecrets \ {""} : ~Contains(line, secret)
        /\ \A c \in Calls :
              /\ Len(xcodeStr[c]) > PreviewLen => ~Contains(line, xcodeStr[c])
              /\ (xout[c].kind = "return"
                    /\ Len(xout[c].token.access_token.s) > PreviewLen)
                 => ~Contains(line, xout[c].token.access_token.s)

\* C30: once the app listens to its settings, the static client id and
\* client secret are the values of the settings, the empty string for a
\* setting that is not set or blank
C30_StaticFieldsFollowSettings ==
    app.state = "initialized"
    => /\ clientStatic.clientId = setClientId(settings.client_id)
       /\ clientStatic.clientSecret = setClientId(settings.client_secret)

====
